---- MODULE Spec2Model ----
(***************************************************************************)
(* The command layer of SpaceBattle/server/commands.py: the atomic         *)
(* commands MoveCommand and RotateCommand, and the order commands          *)
(* StartMoveCommand and EndMoveCommand acting on a game object's property  *)
(* bag and on a command queue (a collections.deque).                       *)
(*                                                                         *)
(* Every execute() is one action.  Besides the program state (props,      *)
(* rotable, queue, nextId) the model keeps `last`, an observation of the   *)
(* most recent execute: its inputs, the calls it made on its               *)
(* collaborators in order, the exception it ended with, and the state it   *)
(* started from.                                                           *)
(***************************************************************************)
EXTENDS Integers, Sequences, FiniteSets, TLC

VARIABLES
    props,      \* the property bag of every game object
    rotable,    \* the direction and rotation velocity of the Rotable object
    queue,      \* the target command queue (a deque), front first
    commands,   \* the command objects constructed so far
    nextId,     \* the identity the next constructed command gets
    steps,      \* executions left in this behaviour
    last        \* observation of the most recent execute

vars == <<props, rotable, queue, commands, nextId, steps, last>>

(***************************************************************************)
(* Bounds of the model.                                                    *)
(***************************************************************************)
\* executions per behaviour of the atomic-command specification
MaxSteps == 2
\* executions per behaviour of the order-command specification
MaxOrderSteps == 2
\* executions per behaviour of the start/end lifecycle specification
MaxLifeSteps == 4
\* longest command queue an order command is first run against
MaxInitQueue == 2
\* longest command queue of the specification of EndMoveCommand alone
MaxEndQueue == 3

\* "degrees range from -360 to +360" of Rotable.get_direction
DegreeRange == 360

(***************************************************************************)
(* Values held by properties: a Python int, a 2-component numpy array, or  *)
(* no value (the property is not set).                                     *)
(***************************************************************************)
Scalar(n) == [kind |-> "int", x |-> n, y |-> 0]
Vec(a, b) == [kind |-> "vec", x |-> a, y |-> b]
Absent == [kind |-> "absent", x |-> 0, y |-> 0]

\* numpy's `+` on ints and 2-component arrays: component-wise, an int is
\* broadcast to both components
NpAddFirstOnly(a, b) ==
    IF a.kind = "vec" \/ b.kind = "vec"
    THEN Vec(a.x + b.x, IF a.kind = "vec" THEN a.y ELSE b.y)
    ELSE Scalar(a.x + b.x)

NpAdd(a, b) ==
    IF a.kind = "vec" /\ b.kind = "vec" THEN Vec(a.x + b.x, a.y + b.y)
    ELSE IF a.kind = "vec" THEN Vec(a.x + b.x, a.y + b.x)
    ELSE IF b.kind = "vec" THEN Vec(a.x + b.x, a.x + b.y)
    ELSE Scalar(a.x + b.x)

(***************************************************************************)
(* Game objects (UObject) and commands.  A command is identified by `id`,  *)
(* standing for the identity of the Python object: no command class        *)
(* defines __eq__, so two commands are equal iff they are the same object. *)
(***************************************************************************)
Objects == {"o1", "o2"}

NoCmd == [kind |-> "none", id |-> 0, obj |-> "none"]
MoveCmd(i, o) == [kind |-> "Move", id |-> i, obj |-> o]
OtherCmd(i) == [kind |-> "Other", id |-> i, obj |-> "none"]

\* one entry of the call log
Call(m, k, v, c) == [method |-> m, key |-> k, val |-> v, cmd |-> c]
Plain(m) == Call(m, "", Absent, NoCmd)

\* how a collaborator's method can fail: the attribute is missing (looking it
\* up raises AttributeError and nothing is called), or the method is called
\* and raises AttributeError, or is called and raises a plain Exception
NoFault == [method |-> "none", kind |-> "none"]
Fault(m, k) == [method |-> m, kind |-> k]
FaultKinds == {"missing", "AttributeError", "Exception"}
RaisedBy(f) == IF f.kind = "missing" THEN "AttributeError" ELSE f.kind
\* the log entry of a failing call: none when the attribute is missing
FailedCall(f, c) == IF f.kind = "missing" THEN <<>> ELSE <<c>>

\* result of running a piece of code: the exception raised ("none" if it
\* returned), the calls made, and the state written
Ran(r, cs, st) == [raised |-> r, calls |-> cs, state |-> st]

\* the run of successive executions of the MoveCommand a Start queued: the
\* command, the position and start velocity at the Start, the executions
NoRun == [cmd |-> NoCmd, start |-> Absent, velocity |-> Absent, k |-> 0]

NoOp ==
    [op |-> "none", obj |-> "none", fault |-> NoFault, turn |-> "none",
     velocity |-> Absent, cmd |-> NoCmd, outcome |-> "none", calls |-> <<>>,
     preProps |-> [o \in Objects |-> [position |-> Absent, velocity |-> Absent]],
     preRotable |-> [direction |-> 0, rotation_velocity |-> 0],
     preQueue |-> <<>>, run |-> NoRun,
     before |-> [op |-> "none", cmd |-> NoCmd, outcome |-> "none", held |-> 0]]

\* what the next observation remembers of this one: the command, its
\* outcome, and how often its queue held the command it named or created
Before == [op |-> last.op, cmd |-> last.cmd, outcome |-> last.outcome,
           held |-> Cardinality({i \in 1..Len(last.preQueue) : last.preQueue[i] = last.cmd})]

(***************************************************************************)
(* MovableAdapter and MoveCommand.                                         *)
(***************************************************************************)
\* UObject.get_value: a lookup error when the property is not set
GetValuePosition(bag, key) == bag["position"]

GetValue(bag, key) == bag[key]
GetValueRaises(bag, key) == bag[key] = Absent

MovableMethods == {"get_position", "get_movement_velocity", "set_position"}

\* the body of MoveCommand.execute's try block, on the bag of the object
\* the Movable adapts, with fault f injected into the Movable
MoveTry(bag, f) ==
    IF f.method = "get_position"
    THEN Ran(RaisedBy(f), FailedCall(f, Plain("get_position")), bag)
    ELSE IF GetValueRaises(bag, "position")
    THEN Ran("LookupError", <<Plain("get_position")>>, bag)
    ELSE LET P == GetValue(bag, "position")
             c1 == <<Plain("get_position")>>
         IN  IF f.method = "get_movement_velocity"
             THEN Ran(RaisedBy(f), c1 \o FailedCall(f, Plain("get_movement_velocity")), bag)
             ELSE IF GetValueRaises(bag, "velocity")
             THEN Ran("LookupError", c1 \o <<Plain("get_movement_velocity")>>, bag)
             ELSE LET V == GetValue(bag, "velocity")
                      new == NpAdd(P, V)
                      c2 == c1 \o <<Plain("get_movement_velocity")>>
                      set == Call("set_position", "position", new, NoCmd)
                  IN  IF f.method = "set_position"
                      THEN Ran(RaisedBy(f), c2 \o FailedCall(f, set), bag)
                      ELSE Ran("none", c2 \o <<set>>, [bag EXCEPT !.position = new])

\* `except AttributeError as err: raise NotMovableError(...)`
MoveExceptNone(raised) == IF raised = "none" THEN "ok" ELSE raised

MoveExcept(raised) ==
    IF raised = "AttributeError" THEN "NotMovableError"
    ELSE IF raised = "none" THEN "ok"
    ELSE raised

\* execute of MoveCommand c (NoCmd: a MoveCommand that was never queued)
\* over the Movable of object o
MoveRun(c, o, f) ==
    /\ steps > 0
    /\ steps' = steps - 1
    /\ LET r == MoveTry(props[o], f)
       IN  /\ props' = [props EXCEPT ![o] = r.state]
           /\ last' = [NoOp EXCEPT !.op = "Move", !.obj = o, !.fault = f,
                                   !.cmd = c,
                                   !.outcome = MoveExcept(r.raised),
                                   !.calls = r.calls,
                                   !.preProps = props, !.preRotable = rotable,
                                   !.preQueue = queue, !.before = Before,
                                   !.run = IF c # NoCmd /\ last.run.cmd = c
                                              /\ r.raised = "none"
                                           THEN [last.run EXCEPT !.k = @ + 1]
                                           ELSE NoRun]
    /\ UNCHANGED <<rotable, queue, commands, nextId>>

MoveExecute(o, f) == MoveRun(NoCmd, o, f)

(***************************************************************************)
(* RotateCommand, on an object that implements Rotable itself.             *)
(***************************************************************************)
RotableMethods == {"get_direction", "get_rotation_velocity", "set_direction"}
Turns == {"left", "right"}

Wrap(d) == IF d >= DegreeRange THEN d - DegreeRange
           ELSE IF d <= -DegreeRange THEN d + DegreeRange ELSE d

NewRotationWrapped(turn, D, R) == Wrap(IF turn = "left" THEN D - R ELSE D + R)

NewRotation(turn, D, R) == IF turn = "left" THEN D - R ELSE D + R

RotateTry(rot, turn, f) ==
    IF f.method = "get_direction"
    THEN Ran(RaisedBy(f), FailedCall(f, Plain("get_direction")), rot)
    ELSE LET c1 == <<Plain("get_direction")>>
         IN  IF f.method = "get_rotation_velocity"
             THEN Ran(RaisedBy(f), c1 \o FailedCall(f, Plain("get_rotation_velocity")), rot)
             ELSE LET new == NewRotation(turn, rot.direction, rot.rotation_velocity)
                      c2 == c1 \o <<Plain("get_rotation_velocity")>>
                      set == Call("set_direction", "direction", Scalar(new), NoCmd)
                  IN  IF f.method = "set_direction"
                      THEN Ran(RaisedBy(f), c2 \o FailedCall(f, set), rot)
                      ELSE Ran("none", c2 \o <<set>>, [rot EXCEPT !.direction = new])

\* `except AttributeError as err: raise NotRotableError(...)`
RotateExcept(raised) ==
    IF raised = "AttributeError" THEN "NotRotableError"
    ELSE IF raised = "none" THEN "ok"
    ELSE raised

RotateExecute(turn, f) ==
    /\ steps > 0
    /\ steps' = steps - 1
    /\ LET r == RotateTry(rotable, turn, f)
       IN  /\ rotable' = r.state
           /\ last' = [NoOp EXCEPT !.op = "Rotate", !.turn = turn, !.fault = f,
                                   !.outcome = RotateExcept(r.raised),
                                   !.calls = r.calls,
                                   !.preProps = props, !.preRotable = rotable,
                                   !.preQueue = queue, !.before = Before]
    /\ UNCHANGED <<props, queue, commands, nextId>>

(***************************************************************************)
(* VelocityChangeAdapter / ChangeVelocityCommand and                       *)
(* VelocityDeletableAdapter / DeleteVelocityCommand, on an object's bag.   *)
(* Fault f makes the named UObject method raise when it is called.         *)
(***************************************************************************)
ChangeVelocityNotRun(bag, v, f) == Ran("none", <<>>, bag)

\* ChangeVelocityCommand(VelocityChangeAdapter(obj), v).execute()
ChangeVelocityRun(bag, v, f) ==
    LET set == Call("set_value", "velocity", v, NoCmd)
    IN  IF f.method = "set_value"
        THEN Ran(RaisedBy(f), FailedCall(f, set), bag)
        ELSE Ran("none", <<set>>, [bag EXCEPT !.velocity = v])

\* DeleteVelocityCommand(VelocityDeletableAdapter(obj)).execute()
DeleteVelocityRun(bag, f) ==
    LET del == Call("del_value", "velocity", Absent, NoCmd)
    IN  IF f.method = "del_value"
        THEN Ran(RaisedBy(f), FailedCall(f, del), bag)
        ELSE Ran("none", <<del>>, [bag EXCEPT !.velocity = Absent])

(***************************************************************************)
(* The command queue: collections.deque.                                   *)
(***************************************************************************)
Range(q) == {q[i] : i \in 1..Len(q)}
Count(q, c) == Cardinality({i \in 1..Len(q) : q[i] = c})
FirstIndex(q, c) == CHOOSE i \in 1..Len(q) : q[i] = c /\ \A j \in 1..(i - 1) : q[j] # c
RemoveAt(q, i) == SubSeq(q, 1, i - 1) \o SubSeq(q, i + 1, Len(q))
SelectSeqNot(q, c) == SelectSeq(q, LAMBDA e : e # c)

\* deque.append
DequeAppendLeft(q, c) == <<c>> \o q

DequeAppend(q, c) == Append(q, c)

\* deque.remove: removes the first occurrence, ValueError when there is none
DequeRemoveAll(q, c) ==
    IF c \in Range(q)
    THEN Ran("none", <<Call("remove", "", Absent, c)>>, SelectSeqNot(q, c))
    ELSE Ran("ValueError", <<Call("remove", "", Absent, c)>>, q)

LastIndex(q, c) == CHOOSE i \in 1..Len(q) : q[i] = c /\ \A j \in (i + 1)..Len(q) : q[j] # c

DequeRemoveLast(q, c) ==
    IF c \in Range(q)
    THEN Ran("none", <<Call("remove", "", Absent, c)>>, RemoveAt(q, LastIndex(q, c)))
    ELSE Ran("ValueError", <<Call("remove", "", Absent, c)>>, q)

DequeRemove(q, c) ==
    IF c \in Range(q)
    THEN Ran("none", <<Call("remove", "", Absent, c)>>, RemoveAt(q, FirstIndex(q, c)))
    ELSE Ran("ValueError", <<Call("remove", "", Absent, c)>>, q)

(***************************************************************************)
(* StartMoveCommand.  order = [obj, velocity]: what the descriptor's       *)
(* get_target_object and get_target_start_velocity return; its             *)
(* get_target_command_queue returns the queue.  The state is               *)
(* [props, queue, cmd], cmd being self.move_command.                       *)
(***************************************************************************)
StartMethods == {"get_target_object", "get_target_start_velocity", "set_value",
                 "get_target_command_queue"}

\* _get_obj
StartGetObj(f) ==
    IF f.method = "get_target_object"
    THEN Ran(RaisedBy(f), FailedCall(f, Plain("get_target_object")), "none")
    ELSE Ran("none", <<Plain("get_target_object")>>, "none")

\* _set_velocity_to_obj: the start velocity is read, then the command runs
StartSetVelocity(bag, order, f) ==
    IF f.method = "get_target_start_velocity"
    THEN Ran(RaisedBy(f), FailedCall(f, Plain("get_target_start_velocity")), bag)
    ELSE LET r == ChangeVelocityRun(bag, order.velocity, f)
         IN  Ran(r.raised, <<Plain("get_target_start_velocity")>> \o r.calls, r.state)

\* _create_move_command: a new MoveCommand over a MovableAdapter of the object
CreateMoveCommandOnce(id, o) == MoveCmd(1, o)

CreateMoveCommand(id, o) == MoveCmd(id, o)

\* _add_command_to_target_commands_queue
StartAddCommand(q, c, f) ==
    IF f.method = "get_target_command_queue"
    THEN Ran(RaisedBy(f), FailedCall(f, Plain("get_target_command_queue")), q)
    ELSE Ran("none", <<Plain("get_target_command_queue"), Call("append", "", Absent, c)>>,
             DequeAppend(q, c))

\* a variant that goes on to the next step after a step has raised
StartRunNoStop(ps, q, order, f, id) ==
    LET r1 == StartGetObj(f)
        r2 == StartSetVelocity(ps[order.obj], order, f)
        c == CreateMoveCommand(id, order.obj)
        r4 == StartAddCommand(q, c, f)
    IN  Ran(IF r1.raised # "none" THEN r1.raised
            ELSE IF r2.raised # "none" THEN r2.raised ELSE r4.raised,
            r1.calls \o r2.calls \o r4.calls,
            [props |-> [ps EXCEPT ![order.obj] = r2.state], queue |-> r4.state, cmd |-> c])

\* execute: the four steps in order, an exception ends it where it is raised
StartRun(ps, q, order, f, id) ==
    LET r1 == StartGetObj(f)
    IN  IF r1.raised # "none"
        THEN Ran(r1.raised, r1.calls, [props |-> ps, queue |-> q, cmd |-> NoCmd])
        ELSE LET r2 == StartSetVelocity(ps[order.obj], order, f)
                 ps2 == [ps EXCEPT ![order.obj] = r2.state]
             IN  IF r2.raised # "none"
                 THEN Ran(r2.raised, r1.calls \o r2.calls,
                          [props |-> ps2, queue |-> q, cmd |-> NoCmd])
                 ELSE LET c == CreateMoveCommand(id, order.obj)
                          r4 == StartAddCommand(q, c, f)
                      IN  Ran(r4.raised, r1.calls \o r2.calls \o r4.calls,
                              [props |-> ps2, queue |-> r4.state, cmd |-> c])

Outcome(raised) == IF raised = "none" THEN "ok" ELSE raised

StartMoveExecute(order, f) ==
    /\ steps > 0
    /\ steps' = steps - 1
    /\ LET r == StartRun(props, queue, order, f, nextId)
       IN  /\ props' = r.state.props
           /\ queue' = r.state.queue
           /\ commands' = IF r.state.cmd = NoCmd THEN commands
                          ELSE commands \cup {r.state.cmd}
           /\ nextId' = IF r.state.cmd = NoCmd THEN nextId ELSE nextId + 1
           /\ last' = [NoOp EXCEPT !.op = "Start", !.obj = order.obj, !.fault = f,
                                   !.velocity = order.velocity, !.cmd = r.state.cmd,
                                   !.outcome = Outcome(r.raised), !.calls = r.calls,
                                   !.preProps = props, !.preRotable = rotable,
                                   !.preQueue = queue, !.before = Before,
                                   !.run = IF r.raised = "none"
                                           THEN [cmd |-> r.state.cmd,
                                                 start |-> props[order.obj].position,
                                                 velocity |-> order.velocity, k |-> 0]
                                           ELSE NoRun]
    /\ UNCHANGED rotable

(***************************************************************************)
(* EndMoveCommand.  order = [cmd, obj]: what the descriptor's              *)
(* get_target_move_command and get_target_moveing_object return; its       *)
(* get_target_commands_queue returns the queue.                            *)
(***************************************************************************)
EndMethods == {"get_target_moveing_object", "get_target_commands_queue",
               "get_target_move_command"}

\* _erase_velocity_from_target_object: the DeleteVelocityCommand is
\* constructed and dropped, its execute is not called
EndEraseVelocity(bag, f) ==
    IF f.method = "get_target_moveing_object"
    THEN Ran(RaisedBy(f), FailedCall(f, Plain("get_target_moveing_object")), bag)
    ELSE Ran("none", <<Plain("get_target_moveing_object")>>, bag)

\* `except ValueError: pass`
EndExceptNothing(raised) == raised

EndExcept(raised) == IF raised = "ValueError" THEN "none" ELSE raised

\* _del_command_from_target_queue
EndDelCommand(q, c, f) ==
    IF f.method = "get_target_commands_queue"
    THEN Ran(RaisedBy(f), FailedCall(f, Plain("get_target_commands_queue")), q)
    ELSE LET c1 == <<Plain("get_target_commands_queue")>>
         IN  IF f.method = "get_target_move_command"
             THEN Ran(RaisedBy(f), c1 \o FailedCall(f, Plain("get_target_move_command")), q)
             ELSE LET r == DequeRemove(q, c)
                  IN  Ran(EndExcept(r.raised),
                          c1 \o <<Plain("get_target_move_command")>> \o r.calls, r.state)

\* execute
EndRun(ps, q, order, f) ==
    LET r1 == EndEraseVelocity(ps[order.obj], f)
        ps1 == [ps EXCEPT ![order.obj] = r1.state]
    IN  IF r1.raised # "none"
        THEN Ran(r1.raised, r1.calls, [props |-> ps1, queue |-> q])
        ELSE LET r2 == EndDelCommand(q, order.cmd, f)
             IN  Ran(r2.raised, r1.calls \o r2.calls, [props |-> ps1, queue |-> r2.state])

EndMoveExecute(order, f) ==
    /\ steps > 0
    /\ steps' = steps - 1
    /\ LET r == EndRun(props, queue, order, f)
       IN  /\ props' = r.state.props
           /\ queue' = r.state.queue
           /\ last' = [NoOp EXCEPT !.op = "End", !.obj = order.obj, !.fault = f,
                                   !.cmd = order.cmd,
                                   !.outcome = Outcome(r.raised), !.calls = r.calls,
                                   !.preProps = props, !.preRotable = rotable,
                                   !.preQueue = queue, !.before = Before]
    /\ UNCHANGED <<rotable, commands, nextId>>

(***************************************************************************)
(* The atomic commands on their own.                                       *)
(***************************************************************************)
Positions == {Vec(12, 5), Vec(0, -1)}
Velocities == {Vec(-7, 3), Scalar(2)}
Directions == {45, 310, -350}
RotationVelocities == {30, -20}

MovableFaults == {NoFault} \cup {Fault(m, k) : m \in MovableMethods, k \in FaultKinds}
RotableFaults == {NoFault} \cup {Fault(m, k) : m \in RotableMethods, k \in FaultKinds}

InitAtomic ==
    /\ props \in [Objects -> [position : Positions, velocity : Velocities]]
    /\ rotable \in [direction : Directions, rotation_velocity : RotationVelocities]
    /\ queue = <<>>
    /\ commands = {}
    /\ nextId = 1
    /\ steps = MaxSteps
    /\ last = NoOp

NextAtomic ==
    \/ \E o \in Objects, f \in MovableFaults : MoveExecute(o, f)
    \/ \E t \in Turns, f \in RotableFaults : RotateExecute(t, f)

SpecAtomic == InitAtomic /\ [][NextAtomic]_vars

(***************************************************************************)
(* The order commands, run against any queue content.                      *)
(***************************************************************************)
OrderFaultKinds == {"Exception"}
StartFaults == {NoFault} \cup {Fault(m, k) : m \in StartMethods, k \in OrderFaultKinds}
EndFaults == {NoFault} \cup {Fault(m, k) : m \in EndMethods, k \in OrderFaultKinds}
StartVelocities == {Scalar(5), Vec(-7, 3)}
StartOrders == [obj : Objects, velocity : StartVelocities]

\* commands that exist before the first order: a MoveCommand of o1 and a
\* command of another class
InitCommands == {MoveCmd(1, "o1"), OtherCmd(2)}
SeqsUpTo(S, n) == UNION {[1..k -> S] : k \in 0..n}

Init ==
    /\ props \in [Objects -> [position : {Vec(12, 5)}, velocity : {Absent, Scalar(2)}]]
    /\ rotable = [direction |-> 0, rotation_velocity |-> 0]
    /\ queue \in SeqsUpTo(InitCommands, MaxInitQueue)
    /\ commands = InitCommands
    /\ nextId = Cardinality(InitCommands) + 1
    /\ steps = MaxOrderSteps
    /\ last = NoOp

Next ==
    \/ \E order \in StartOrders, f \in StartFaults : StartMoveExecute(order, f)
    \/ \E c \in commands, o \in Objects, f \in EndFaults :
          EndMoveExecute([cmd |-> c, obj |-> o], f)

Spec == Init /\ [][Next]_vars

(***************************************************************************)
(* Properties of the atomic commands (checked under SpecAtomic).           *)
(***************************************************************************)
CallsOf(m) == {i \in 1..Len(last.calls) : last.calls[i].method = m}
IndexOf(m) == CHOOSE i \in CallsOf(m) : TRUE
Abs(n) == IF n < 0 THEN -n ELSE n

\* C5: whenever the target returns a position vector P and a velocity vector
\* V, MoveCommand.execute calls set_position exactly once, with the
\* component-wise sum of P and V, and after get_position and
\* get_movement_velocity have both been called (each exactly once).
C5_MoveSetsSum ==
    (/\ last.op = "Move"
     /\ last.fault.method \notin {"get_position", "get_movement_velocity"}
     /\ last.fault.kind # "missing"
     /\ last.preProps[last.obj].velocity.kind = "vec")
    => LET P == last.preProps[last.obj].position
           V == last.preProps[last.obj].velocity
       IN  /\ Cardinality(CallsOf("set_position")) = 1
           /\ Cardinality(CallsOf("get_position")) = 1
           /\ Cardinality(CallsOf("get_movement_velocity")) = 1
           /\ last.calls[IndexOf("set_position")].val
                  = [kind |-> "vec", x |-> P.x + V.x, y |-> P.y + V.y]
           /\ IndexOf("get_position") < IndexOf("set_position")
           /\ IndexOf("get_movement_velocity") < IndexOf("set_position")
           /\ last.outcome = "ok"
                  => props[last.obj].position
                        = [kind |-> "vec", x |-> P.x + V.x, y |-> P.y + V.y]

\* the example of test_move: (12, 5) moved by (-7, 3) is at (5, 8)
C5_Witness ==
    /\ last.op = "Move" /\ last.outcome = "ok"
    /\ last.preProps[last.obj].position = Vec(12, 5)
    /\ last.preProps[last.obj].velocity = Vec(-7, 3)
    /\ props[last.obj].position = Vec(5, 8)

\* C6: RotateCommand.execute calls set_direction exactly once, with D - R for
\* a left turn and D + R for a right turn, D and R being the direction and
\* rotation velocity it read; the value is written as computed, also when
\* it lies outside (-360, 360).
C6_RotateSetsSum ==
    (/\ last.op = "Rotate"
     /\ last.fault.method \notin {"get_direction", "get_rotation_velocity"}
     /\ last.fault.kind # "missing")
    => LET D == last.preRotable.direction
           R == last.preRotable.rotation_velocity
           want == IF last.turn = "left" THEN D - R ELSE D + R
       IN  /\ Cardinality(CallsOf("set_direction")) = 1
           /\ last.calls[IndexOf("set_direction")].val.x = want
           /\ last.outcome = "ok" => rotable.direction = want

\* a second execution takes a direction from inside (-360, 360) out of it
C6_Witness ==
    /\ last.op = "Rotate" /\ last.outcome = "ok"
    /\ steps <= MaxSteps - 2
    /\ Abs(last.preRotable.direction) < DegreeRange
    /\ Abs(rotable.direction) >= DegreeRange

\* C7: when the target lacks one of the three methods the command uses,
\* MoveCommand.execute ends with NotMovableError and RotateCommand.execute
\* with NotRotableError, the setter is not called, and the position
\* respectively the direction is what it was.
C7_MissingCapability ==
    /\ (last.op = "Move" /\ last.fault.kind = "missing")
          => /\ last.outcome = "NotMovableError"
             /\ CallsOf("set_position") = {}
             /\ props = last.preProps
    /\ (last.op = "Rotate" /\ last.fault.kind = "missing")
          => /\ last.outcome = "NotRotableError"
             /\ CallsOf("set_direction") = {}
             /\ rotable = last.preRotable

\* the setter itself is the missing capability, after both reads
C7_Witness ==
    /\ last.op = "Move"
    /\ last.fault = Fault("set_position", "missing")
    /\ Len(last.calls) = 2
    /\ last.outcome = "NotMovableError"

\* C8: whenever a method of the target is called and raises, whatever the
\* exception, execute ends with NotMovableError (MoveCommand) respectively
\* NotRotableError (RotateCommand).
C8_AnyExceptionTranslated ==
    /\ (last.op = "Move" /\ last.fault.kind \in {"AttributeError", "Exception"})
          => last.outcome = "NotMovableError"
    /\ (last.op = "Rotate" /\ last.fault.kind \in {"AttributeError", "Exception"})
          => last.outcome = "NotRotableError"

(***************************************************************************)
(* The start/end lifecycle: no object moves and the queue is empty; every  *)
(* Start and End succeeds, an End names a MoveCommand that a Start made    *)
(* and the object it is bound to, and a queued MoveCommand can be run.     *)
(***************************************************************************)
\* the scheduler runs the command at index i of the queue, which stays queued
QueuedMoveExecute(i) ==
    /\ i \in 1..Len(queue)
    /\ queue[i].kind = "Move"
    /\ MoveRun(queue[i], queue[i].obj, NoFault)

InitLife ==
    /\ props \in [Objects -> [position : Positions, velocity : {Absent}]]
    /\ rotable = [direction |-> 0, rotation_velocity |-> 0]
    /\ queue = <<>>
    /\ commands = {}
    /\ nextId = 1
    /\ steps = MaxLifeSteps
    /\ last = NoOp

NextLife ==
    \/ \E order \in StartOrders : StartMoveExecute(order, NoFault)
    \/ \E c \in commands : EndMoveExecute([cmd |-> c, obj |-> c.obj], NoFault)
    \/ \E i \in 1..Len(queue) : QueuedMoveExecute(i)

SpecLife == InitLife /\ [][NextLife]_vars

(***************************************************************************)
(* Properties of the order commands (checked under Spec and SpecLife).     *)
(***************************************************************************)
Methods(cs) == [i \in 1..Len(cs) |-> cs[i].method]
IsPrefix(s, t) == Len(s) <= Len(t) /\ SubSeq(t, 1, Len(s)) = s
StartSteps == <<"get_target_object", "get_target_start_velocity", "set_value",
                "get_target_command_queue", "append">>

\* C1: after a StartMoveCommand.execute that returns, set_value was called
\* exactly once on the target object, with 'velocity' and the descriptor's
\* start velocity, and the queue holds what it held before plus exactly one
\* more command, a MoveCommand bound to the target object.
C1_StartPostcondition ==
    (last.op = "Start" /\ last.outcome = "ok")
    => /\ Cardinality(CallsOf("set_value")) = 1
       /\ last.calls[IndexOf("set_value")].key = "velocity"
       /\ last.calls[IndexOf("set_value")].val = last.velocity
       /\ props[last.obj].velocity = last.velocity
       /\ Len(queue) = Len(last.preQueue) + 1
       /\ last.cmd.kind = "Move"
       /\ last.cmd.obj = last.obj
       /\ \A c \in Range(queue) \cup Range(last.preQueue) :
             Count(queue, c) = Count(last.preQueue, c) + (IF c = last.cmd THEN 1 ELSE 0)

\* a Start on a non-empty queue and an object that had another velocity
C1_Witness ==
    /\ last.op = "Start" /\ last.outcome = "ok"
    /\ Len(last.preQueue) > 0
    /\ last.preProps[last.obj].velocity = Scalar(2)
    /\ props[last.obj].velocity = Scalar(5)
    /\ Count(queue, last.cmd) = 1

\* C2 as claimed: after an EndMoveCommand.execute that returns, the named
\* command does not occur in the queue, whatever the queue held before.
C2_Original ==
    (last.op = "End" /\ last.outcome = "ok") => last.cmd \notin Range(queue)

\* C2 amended: an EndMoveCommand.execute that returns removes one occurrence
\* of the named command if there is one, so the command does not occur in
\* the queue afterwards when the queue held it at most once, and n - 1
\* references remain when it held n >= 2.
C2_EndRemovesOne ==
    (last.op = "End" /\ last.outcome = "ok")
    => /\ Count(queue, last.cmd)
            = (IF Count(last.preQueue, last.cmd) = 0 THEN 0
               ELSE Count(last.preQueue, last.cmd) - 1)
       /\ Count(last.preQueue, last.cmd) <= 1 => last.cmd \notin Range(queue)

\* the queue held the named command twice, once is left
C2_Witness ==
    /\ last.op = "End" /\ last.outcome = "ok"
    /\ Count(last.preQueue, last.cmd) = 2
    /\ Count(queue, last.cmd) = 1

\* C3: during an EndMoveCommand.execute that returns, del_value is called
\* exactly once on the moving object, with 'velocity'.
C3_EndDeletesVelocity ==
    (last.op = "End" /\ last.outcome = "ok")
    => /\ Cardinality(CallsOf("del_value")) = 1
       /\ last.calls[IndexOf("del_value")].key = "velocity"

\* C4: in the lifecycle an object has a velocity iff a MoveCommand bound to
\* it is in the queue.
C4_VelocityIffQueued ==
    \A o \in Objects :
        (props[o].velocity # Absent)
            <=> (\E i \in 1..Len(queue) : queue[i].kind = "Move" /\ queue[i].obj = o)

\* C9: StartMoveCommand.execute makes its calls in the order get_target_object,
\* get_target_start_velocity, set_value, get_target_command_queue, append, and
\* stops at the first that raises, whose exception is its outcome.  When
\* one of the first three raises the queue is as it was; when
\* get_target_object or get_target_start_velocity raises so are the
\* properties; when get_target_command_queue raises the start velocity is
\* on the object and the queue is as it was.
C9_StartStepsNoRollback ==
    last.op = "Start"
    => /\ IsPrefix(Methods(last.calls), StartSteps)
       /\ last.outcome = "ok" => Methods(last.calls) = StartSteps
       /\ last.fault # NoFault
            => /\ last.outcome = last.fault.kind
               /\ Methods(last.calls)[Len(last.calls)] = last.fault.method
               /\ queue = last.preQueue
               /\ CallsOf("append") = {}
       /\ last.fault.method \in {"get_target_object", "get_target_start_velocity"}
            => props = last.preProps
       /\ last.fault.method = "get_target_command_queue"
            => props[last.obj].velocity = last.velocity

\* obtaining the queue raised after a new velocity was written
C9_Witness ==
    /\ last.op = "Start"
    /\ last.fault.method = "get_target_command_queue"
    /\ last.outcome = "Exception"
    /\ last.preProps[last.obj].velocity # last.velocity
    /\ props[last.obj].velocity = last.velocity
    /\ queue = last.preQueue

\* C10: an EndMoveCommand.execute whose descriptor raises nothing and whose
\* named command is not in the queue returns normally and leaves the queue
\* as it was; so the second of two executions of the same End on a queue
\* that held the command once changes nothing.
C10_EndAbsentIsNoOp ==
    (last.op = "End" /\ last.fault = NoFault /\ last.cmd \notin Range(last.preQueue))
    => /\ last.outcome = "ok"
       /\ queue = last.preQueue
       /\ props = last.preProps

\* the second execution of an End that removed the only occurrence
C10_Witness ==
    /\ last.op = "End" /\ last.fault = NoFault /\ last.outcome = "ok"
    /\ last.before.op = "End" /\ last.before.cmd = last.cmd
    /\ last.before.outcome = "ok" /\ last.before.held = 1
    /\ last.cmd \notin Range(last.preQueue)
    /\ Len(last.preQueue) > 0
    /\ queue = last.preQueue

\* C11: a StartMoveCommand.execute that returns appends its MoveCommand at
\* the tail of the queue and every command queued before keeps its index;
\* the only write to an object is set_value('velocity', ...) on the target:
\* no position changes, no other object changes, nothing is removed from
\* the queue and no queued command is executed.
C11_StartFrame ==
    (last.op = "Start" /\ last.outcome = "ok")
    => /\ Len(queue) = Len(last.preQueue) + 1
       /\ queue[Len(queue)] = last.cmd
       /\ \A i \in 1..Len(last.preQueue) : queue[i] = last.preQueue[i]
       /\ \A o \in Objects : props[o].position = last.preProps[o].position
       /\ \A o \in Objects \ {last.obj} : props[o] = last.preProps[o]
       /\ rotable = last.preRotable
       /\ \A i \in 1..Len(last.calls) :
             /\ last.calls[i].method
                   \notin {"set_position", "get_position", "get_movement_velocity",
                            "remove", "del_value"}
             /\ last.calls[i].method = "set_value" => last.calls[i].key = "velocity"

\* a Start on a queue of two commands: both keep their place, the new
\* MoveCommand is third
C11_Witness ==
    /\ last.op = "Start" /\ last.outcome = "ok"
    /\ Len(last.preQueue) = 2
    /\ last.preQueue[1] # last.preQueue[2]
    /\ queue = <<last.preQueue[1], last.preQueue[2], last.cmd>>
    /\ props[last.obj].position = Vec(12, 5)

(***************************************************************************)
(* EndMoveCommand alone, run against longer queues, in which other         *)
(* commands can stand between two references to the named command.         *)
(***************************************************************************)
InitEnd ==
    /\ props \in [Objects -> [position : {Vec(12, 5)}, velocity : {Absent, Scalar(2)}]]
    /\ rotable = [direction |-> 0, rotation_velocity |-> 0]
    /\ queue \in SeqsUpTo(InitCommands, MaxEndQueue)
    /\ commands = InitCommands
    /\ nextId = Cardinality(InitCommands) + 1
    /\ steps = MaxOrderSteps
    /\ last = NoOp

NextEnd ==
    \E c \in commands, o \in Objects, f \in EndFaults :
        EndMoveExecute([cmd |-> c, obj |-> o], f)

SpecEnd == InitEnd /\ [][NextEnd]_vars

\* C12: an EndMoveCommand.execute, however it ends, leaves the queue as it
\* was or removes the one entry that is the first occurrence of the named
\* command counted from the front, the entries before it keeping their
\* index and those after it moving up by one; it removes that entry
\* whenever it returns and the command was queued.  No position changes
\* and no method of a Movable is called: no queued command is executed.
C12_EndRemovesFirstOnly ==
    last.op = "End"
    => LET pre == last.preQueue
           n == Len(pre)
       IN  /\ \/ queue = pre
              \/ \E i \in 1..n :
                    /\ pre[i] = last.cmd
                    /\ \A j \in 1..(i - 1) : pre[j] # last.cmd
                    /\ Len(queue) = n - 1
                    /\ \A j \in 1..(i - 1) : queue[j] = pre[j]
                    /\ \A j \in i..(n - 1) : queue[j] = pre[j + 1]
           /\ (last.outcome = "ok" /\ last.cmd \in Range(pre)) => Len(queue) = n - 1
           /\ \A o \in Objects : props[o].position = last.preProps[o].position
           /\ \A k \in 1..Len(last.calls) :
                 last.calls[k].method
                    \notin {"get_position", "get_movement_velocity", "set_position", "append"}

\* the named command is first and third: the first reference is removed,
\* the command between and the third reference stay, in that order
C12_Witness ==
    /\ last.op = "End" /\ last.outcome = "ok"
    /\ Len(last.preQueue) = 3
    /\ last.preQueue[1] = last.cmd
    /\ last.preQueue[2] # last.cmd
    /\ last.preQueue[3] = last.cmd
    /\ queue = <<last.preQueue[2], last.cmd>>

(***************************************************************************)
(* Properties of the lifecycle (checked under SpecLife).                   *)
(***************************************************************************)
\* C13: every StartMoveCommand.execute constructs a MoveCommand that is not
\* in the queue yet, also when the Start before it was for the same object:
\* the queued commands are pairwise distinct MoveCommands, after k Starts k
\* distinct commands exist, each of them queued once or removed by an End,
\* and an End naming a queued command removes that one and leaves the
\* others in place.
C13_FreshMoveCommands ==
    /\ \A i, j \in 1..Len(queue) : i # j => queue[i] # queue[j]
    /\ \A i \in 1..Len(queue) : queue[i].kind = "Move" /\ queue[i] \in commands
    /\ Cardinality(commands) = nextId - 1
    /\ Len(queue) + Cardinality(commands \ Range(queue)) = nextId - 1
    /\ (last.op = "Start" /\ last.outcome = "ok")
          => /\ last.cmd \notin Range(last.preQueue)
             /\ last.cmd # last.before.cmd
             /\ Len(queue) = Len(last.preQueue) + 1
    /\ (last.op = "End" /\ last.outcome = "ok" /\ last.cmd \in Range(last.preQueue))
          => /\ Len(queue) = Len(last.preQueue) - 1
             /\ queue = SelectSeq(last.preQueue, LAMBDA e : e # last.cmd)
             /\ Range(queue) = Range(last.preQueue) \ {last.cmd}

\* three Starts for one object, then an End naming the second MoveCommand:
\* the first and the third stay
C13_Witness ==
    /\ last.op = "End" /\ last.outcome = "ok"
    /\ Len(last.preQueue) = 3
    /\ \A i \in 1..3 : last.preQueue[i].obj = last.obj
    /\ last.cmd = last.preQueue[2]
    /\ queue = <<last.preQueue[1], last.preQueue[3]>>

\* C14: after a Start that returned, with start velocity v on an object at
\* position P, and k executions in a row of the MoveCommand it queued, the
\* object's velocity is v and its position is P + k * v (an int v added to
\* both components).
C14_QueuedMoveUsesStartVelocity ==
    last.run.cmd # NoCmd
    => LET o == last.run.cmd.obj
           P == last.run.start
           v == last.run.velocity
           k == last.run.k
       IN  /\ props[o].velocity = v
           /\ props[o].position
                 = [kind |-> "vec",
                    x |-> P.x + k * v.x,
                    y |-> P.y + k * (IF v.kind = "vec" THEN v.y ELSE v.x)]

\* three executions in a row of the queued MoveCommand
C14_Witness ==
    /\ last.op = "Move" /\ last.outcome = "ok"
    /\ last.run.cmd # NoCmd
    /\ last.run.cmd \in Range(queue)
    /\ last.run.k = 3
    /\ props[last.obj].position # last.run.start

====
